---- MODULE Spec2Model ----
(***************************************************************************)
(* A model of the raider command-line tool (src/src/raider/cli.py and      *)
(* src/src/raider/config.py).  The state is the part of the machine one    *)
(* invocation reads and writes: the platform, the local bin directory and  *)
(* the search path, the configuration file, the files under the project    *)
(* root and under the build-output directory, and the record of the last   *)
(* invocation (its arguments, what it printed, what it ran, how it ended). *)
(* Each command handler is one action.                                     *)
(***************************************************************************)
EXTENDS Integers, Sequences, FiniteSets, TLC

VARIABLES
    osName,     \* os.name: "posix" or "nt"
    vbinDirs,   \* kind of <prefix>/bin and <prefix>/Scripts
    vfiles,     \* kind of each entry of the directory venv_bin_dir() selects
    onPath,     \* the names shutil.which finds on the search path
    cfgFile,    \* raider.json at the project root: absent, unparsable or a JSON value
    rootParts,  \* the directory names of the absolute project root path
    tree,       \* the files and directories under the project root (outside build/)
    bfiles,     \* the entries under the build-output directory of the preset
    bdirExists, \* whether the build-output directory exists
    bdirCC,     \* whether the build-output directory holds compile_commands.json
    rootCC,     \* compile_commands.json at the project root
    skel,       \* the files init generates, by name: absent or their content
    vcpkg,      \* what deps bootstrap finds at its destination directory
    shown,      \* what the last two raid meters invocations printed
    procs,      \* deps invocations running side by side, each at its step
    last        \* the last invocation: arguments, effects, output and exit status

vars == <<osName, vbinDirs, vfiles, onPath, cfgFile, rootParts, tree, bfiles,
          bdirExists, bdirCC, rootCC, skel, vcpkg, shown, procs, last>>

\* What no handler of the tool writes (external programs may).
env == <<osName, vbinDirs, vfiles, onPath, cfgFile, rootParts, tree>>
build == <<bfiles, bdirExists, bdirCC>>
proj == <<skel, vcpkg, shown, procs>>
world == <<env, build, proj>>

(***************************************************************************)
(* JSON values, tagged by their type.                                      *)
(***************************************************************************)
Str(s) == [t |-> "str", s |-> s]
Num(n) == [t |-> "num", n |-> n]
Arr(a) == [t |-> "arr", a |-> a]
Map(m) == [t |-> "map", m |-> m]
Null == [t |-> "null"]
EmptyMap == Map([k \in {} |-> Null])

IsMap(v) == v.t = "map"
Keys(v) == DOMAIN v.m
HasKey(v, k) == IsMap(v) /\ k \in Keys(v)

\* A one-entry mapping and the union of two mappings with disjoint keys.
One(k, v) == Map(k :> v)
Join(a, b) == Map(a.m @@ b.m)

(***************************************************************************)
(* config.py                                                               *)
(***************************************************************************)
DEFAULT_CONFIG ==
    Map([k \in {"project", "presets", "paths", "tools", "run", "format", "deps"} |->
        CASE k = "project" -> Map(("name" :> Str("raider-proj")) @@ ("cxx_standard" :> Num(20)))
          [] k = "presets" -> Map(("configure" :> Str("dev")) @@ ("build" :> Str("dev"))
                                  @@ ("test" :> Str("dev")))
          [] k = "paths" -> Map(("src_dir" :> Str("src")) @@ ("tests_dir" :> Str("tests")))
          [] k = "tools" -> Map(("cmake" :> Str("cmake")) @@ ("ctest" :> Str("ctest"))
                                @@ ("clang_format" :> Str("clang-format"))
                                @@ ("clang_tidy" :> Str("clang-tidy")))
          [] k = "run" -> Map("target" :> Null)
          [] k = "format" -> Map(("extensions" :> Arr(<<".h", ".hpp", ".c", ".cc", ".cpp", ".cxx">>))
                                 @@ ("exclude_dirs" :> Arr(<<"build", ".git", ".cache">>)))
          [] k = "deps" -> Map(("manager" :> Str("vcpkg")) @@ ("manifest" :> Str("vcpkg.json"))
                               @@ ("vcpkg_root" :> Str(".tools/vcpkg")))])

\* A faulty merge: the user's value always replaces the default's, mappings included.
deep_merge_shallow(dst, src) ==
    Map([k \in Keys(dst) \cup Keys(src) |->
        IF k \in Keys(src) THEN src.m[k] ELSE dst.m[k]])

\* out = dict(dst); every key of src is merged into it when both values are
\* mappings and assigned otherwise.
RECURSIVE deep_merge(_, _)
deep_merge(dst, src) ==
    Map([k \in Keys(dst) \cup Keys(src) |->
        IF k \in Keys(src)
        THEN IF IsMap(src.m[k]) /\ k \in Keys(dst) /\ IsMap(dst.m[k])
             THEN deep_merge(dst.m[k], src.m[k])
             ELSE src.m[k]
        ELSE dst.m[k]])

\* json.loads(json.dumps(v)): the value rebuilt node by node.
RECURSIVE JsonRoundTrip(_)
JsonRoundTrip(v) ==
    CASE v.t = "map" -> Map([k \in Keys(v) |-> JsonRoundTrip(v.m[k])])
      [] v.t = "arr" -> Arr([i \in DOMAIN v.a |-> v.a[i]])
      [] OTHER -> v

\* The configuration file: absent, not valid JSON, or the JSON value it holds.
Absent == [t |-> "absent"]
Invalid == [t |-> "invalid"]
\* What a handler gets when an exception is raised in its place.
Raise == [t |-> "raise"]
Raised(v) == v.t = "raise"

load_config(file) ==
    IF file = Absent THEN JsonRoundTrip(DEFAULT_CONFIG)
    ELSE IF file = Invalid THEN Raise              \* json.loads raises
    ELSE IF ~IsMap(file) THEN Raise                \* src.items() raises
    ELSE deep_merge(DEFAULT_CONFIG, file)

(***************************************************************************)
(* The configuration files and the mappings the merge is exercised on.     *)
(***************************************************************************)
MaxUserKeys == 2

SectionNames == Keys(DEFAULT_CONFIG)
UserKeys == SectionNames \cup {"extra"}

\* A user's value for a default leaf: of the leaf's type, different from it.
UserLeaf(v) ==
    CASE v.t = "str" -> Str("user")
      [] v.t = "num" -> Num(17)
      [] v.t = "arr" -> Arr(<<".cpp">>)
      [] OTHER -> Str("app")

\* What a user may write under a top-level key: a scalar, null, an empty
\* mapping, one leaf of the section overridden, or a key the defaults lack.
OverrideVals(k) ==
    IF k \in SectionNames
    THEN {Str("x"), Null, EmptyMap, One("other", Str("v"))}
         \cup {One(leaf, UserLeaf(DEFAULT_CONFIG.m[k].m[leaf])) : leaf \in Keys(DEFAULT_CONFIG.m[k])}
    ELSE {Str("x"), One("k", Str("v"))}

RECURSIVE ObjectsOver(_)
ObjectsOver(S) ==
    IF S = {} THEN {EmptyMap}
    ELSE LET k == CHOOSE x \in S : TRUE
         IN {Join(One(k, v), o) : v \in OverrideVals(k), o \in ObjectsOver(S \ {k})}

UserObjects ==
    UNION {ObjectsOver(S) : S \in {T \in SUBSET UserKeys : Cardinality(T) <= MaxUserKeys}}

UserConfigs == {Absent, Invalid, Arr(<<"x">>)} \cup UserObjects

\* Nested mappings over two keys: leaves, mappings of leaves, and mappings
\* of both; and a few three levels deep.
MapsOver(vals) ==
    UNION {{Map(f) : f \in [S -> vals]} : S \in SUBSET {"p", "q"}}
NestedMaps(leaves) ==
    LET m1 == MapsOver(leaves)
    IN MapsOver(leaves \cup m1) \cup {One("p", One("p", m)) : m \in m1}
MergeDst == NestedMaps({Str("d"), Arr(<<"x", "y">>)})
MergeSrc == NestedMaps({Str("u"), Arr(<<"z">>)})

(***************************************************************************)
(* Sequences and sets.                                                     *)
(***************************************************************************)
Range(s) == {s[i] : i \in DOMAIN s}
Min(S) == CHOOSE x \in S : \A y \in S : x <= y
\* The orders in which a traversal may yield the members of S.
Orders(S) == {f \in [1..Cardinality(S) -> S] : \A i, j \in 1..Cardinality(S) : f[i] = f[j] => i = j}

(***************************************************************************)
(* The record of an invocation: the command and its arguments, the         *)
(* external commands it ran with their exit statuses, the messages it      *)
(* printed, the exception or exit that ended it and its exit status.       *)
(***************************************************************************)
NoCmd == [cmd |-> "none"]
None == [dir |-> "None"]

Base(cmd, args) ==
    [cmd |-> cmd, args |-> args, exit |-> 0, err |-> "", tool |-> "", ran |-> <<>>,
     out |-> {}, report |-> {}, target |-> "", searched |-> FALSE, via |-> "",
     cand |-> 0, launched |-> None, started |-> FALSE, childrc |-> 0,
     saves |-> 0, steps |-> <<>>, dest |-> "", printed |-> <<>>,
     defaults |-> DEFAULT_CONFIG]

Failed(r) == r.err # ""
\* An uncaught exception: a traceback and exit status 1.
Exc(r, what) == [r EXCEPT !.exit = 1, !.err = what]
\* raise SystemExit(message): the message on the error stream and exit status 1.
Die(r, msg) == [r EXCEPT !.exit = 1, !.err = "SystemExit", !.out = @ \cup {msg}]
Say(r, msg) == [r EXCEPT !.out = @ \cup {msg}]

ExitCodes == {0, 1}

\* A faulty run: the exit status of the external command is not checked.
run_unchecked(r, argv, rc) ==
    [r EXCEPT !.ran = Append(@, [argv |-> argv, rc |-> rc])]

\* subprocess.run(cmd, check=True): a non-zero exit status raises.
run(r, argv, rc) ==
    LET r1 == [r EXCEPT !.ran = Append(@, [argv |-> argv, rc |-> rc])]
    IN IF rc # 0 THEN Exc(r1, "CalledProcessError") ELSE r1

\* An external command line: the program, its options and the file it is given.
Argv(prog, opts, file) == [prog |-> prog, opts |-> opts, file |-> file]

\* cfg[section][key]; raises when cfg[section] is no mapping or lacks the key.
Get2(cfg, section, key) ==
    IF ~HasKey(cfg, section) THEN Raise
    ELSE IF ~HasKey(cfg.m[section], key) THEN Raise
    ELSE cfg.m[section].m[key]

\* Python's truth value of a JSON value.
Truthy(v) ==
    CASE v.t = "null" -> FALSE
      [] v.t = "str" -> v.s # ""
      [] v.t = "num" -> v.n # 0
      [] v.t = "arr" -> v.a # <<>>
      [] v.t = "map" -> Keys(v) # {}
      [] OTHER -> FALSE
IsStr(v) == v.t = "str"

(***************************************************************************)
(* Tool resolution.                                                        *)
(***************************************************************************)
Kinds == {"absent", "file", "dir"}

\* shutil.which(name)
which(name) == IF name \in onPath THEN [dir |-> "PATH", name |-> name, ext |-> ""] ELSE None

which_or_die(r, tool, name) ==
    LET r1 == [r EXCEPT !.tool = tool]
    IN IF which(tool) = None THEN Die(r1, "Tool not found") ELSE r1

venv_bin_dir ==
    IF vbinDirs.bin = "dir" THEN "bin"
    ELSE IF vbinDirs.Scripts = "dir" THEN "Scripts"
    ELSE "None"

VKind(name, ext) ==
    IF <<name, ext>> \in DOMAIN vfiles THEN vfiles[<<name, ext>>] ELSE "absent"

SuffixCandidates == IF osName # "nt" THEN <<"">> ELSE <<".exe", ".bat", ".cmd", "">>

resolve_tool(name) ==
    LET vbin == venv_bin_dir
        exts == SuffixCandidates
        hits == {i \in DOMAIN exts : VKind(name, exts[i]) # "absent"}
    IN IF vbin # "None" /\ hits # {}
       THEN <<[dir |-> vbin, name |-> name, ext |-> exts[Min(hits)]], "venv">>
       ELSE IF which(name) # None THEN <<which(name), "PATH">>
       ELSE <<None, "missing">>

tool_or_die(r, name, friendly) ==
    LET r1 == [r EXCEPT !.tool = name]
    IN IF resolve_tool(name)[1] = None THEN Die(r1, "Tool not found") ELSE r1

\* Python's truth value of a tuple: false only when it is empty.
TruthyTuple(t) == Len(t) # 0

ProbedTools == <<"cmake", "ninja", "ctest", "clang", "clangd", "clang-format", "clang-tidy">>

(***************************************************************************)
(* Commands.                                                               *)
(***************************************************************************)
PresetArgs == {"", "rel"}

\* args.preset or cfg["presets"][phase]
PresetOf(args, cfg, phase) ==
    IF args.preset # "" THEN Str(args.preset) ELSE Get2(cfg, "presets", phase)

\* The arguments each handler passes to its tool.
ConfigureArgv(preset) == <<"--preset", preset>>
BuildArgv(preset) == <<"--build", "--preset", preset>>
TestArgv(preset) == <<"--preset", preset, "--output-on-failure">>
PhaseArgv(phase, preset) ==
    CASE phase = "configure" -> ConfigureArgv(preset)
      [] phase = "build" -> BuildArgv(preset)
      [] phase = "test" -> TestArgv(preset)

\* A handler whose one external command is `tool <argv>` under a preset:
\* load the configuration, require the tool, run it, report.
OneTool(r, toolKey, friendly, phase, rc) ==
    LET cfg == load_config(cfgFile)
        tool == Get2(cfg, "tools", toolKey)
    IN IF Raised(cfg) THEN Exc(r, "config")
       ELSE IF Raised(tool) THEN Exc(r, "TypeError")
       ELSE IF ~IsStr(tool) THEN Exc(r, "TypeError")
       ELSE LET r1 == which_or_die(r, tool.s, friendly) IN
            IF Failed(r1) THEN r1
            ELSE LET preset == PresetOf(r.args, cfg, phase) IN
                 IF Raised(preset) \/ ~IsStr(preset) THEN Exc(r1, "TypeError")
                 ELSE run(r1, Argv(tool.s, PhaseArgv(phase, preset.s), None), rc)

(***************************************************************************)
(* Files.  An entry under the project root or under the build-output       *)
(* directory is named by its directories below that place, the stem of its *)
(* name and its suffix (Path.suffix: "" when the name has no dot).         *)
(***************************************************************************)
File(dir, stem, ext) == [dir |-> dir, stem |-> stem, ext |-> ext, kind |-> "file"]
Dir(dir, stem, ext) == [dir |-> dir, stem |-> stem, ext |-> ext, kind |-> "dir"]
PathOf(e) == <<e.dir, e.stem, e.ext>>
DistinctPaths(S) == \A a, b \in S : PathOf(a) = PathOf(b) => a = b

\* The build-output directory root/build/<preset>; only build/dev is populated.
build_dir_for_preset(preset) == <<"build", preset>>
BdirExists(preset) == preset = "dev" /\ bdirExists
BdirEntries(preset) == IF BdirExists(preset) THEN bfiles ELSE {}
BdirCC(preset) == BdirExists(preset) /\ bdirCC

\* root.rglob("*"): everything under the project root, the build-output
\* directory's entries included.
UnderRoot ==
    tree \cup {[dir |-> build_dir_for_preset("dev") \o e.dir, stem |-> e.stem, ext |-> e.ext,
                kind |-> e.kind] : e \in BdirEntries("dev")}

\* set(cfg["format"][key]) for an array leaf (a string leaf, iterated by
\* character, is outside the configurations drawn).
SetOf(v) == IF v.t = "arr" THEN [t |-> "ok", v |-> Range(v.a)] ELSE Raise

\* The names of p.parents: the directories below the root, the root and the
\* directories above it, up to the filesystem root, whose name is "".
ParentNames(p) == Range(p.dir) \cup Range(rootParts) \cup {""}

SourceKept(p, exts, ex_dirs) ==
    /\ p.kind # "dir"
    /\ p.ext \in exts
    /\ ~(\E name \in ParentNames(p) : name \in ex_dirs)

\* `order` is the order in which rglob yields the entries.
collect_sources(order, cfg) ==
    LET ex_dirs == Get2(cfg, "format", "exclude_dirs")
        exts == Get2(cfg, "format", "extensions")
    IN IF Raised(ex_dirs) \/ Raised(exts) THEN Raise
       ELSE IF Raised(SetOf(ex_dirs)) \/ Raised(SetOf(exts)) THEN Raise
       ELSE LET Keep(p) == SourceKept(p, SetOf(exts).v, SetOf(ex_dirs).v)
            IN [t |-> "ok", v |-> SelectSeq(order, Keep)]

\* for f in files: run([tool, ...f...]) -- stops at the first call that raises.
RECURSIVE RunEach(_, _, _, _, _)
RunEach(r, prog, opts, files, rcs) ==
    IF files = <<>> THEN r
    ELSE LET r1 == run(r, Argv(prog, opts, Head(files)), rcs[Head(files)])
         IN IF Failed(r1) THEN r1 ELSE RunEach(r1, prog, opts, Tail(files), rcs)

cmd_fmt(args, order, rcs) ==
    LET r == Base("fmt", args)
        cfg == load_config(cfgFile)
        tool == Get2(cfg, "tools", "clang_format")
    IN IF Raised(cfg) THEN Exc(r, "config")
       ELSE IF Raised(tool) THEN Exc(r, "TypeError")
       ELSE IF ~IsStr(tool) THEN Exc(r, "TypeError")
       ELSE LET r1 == which_or_die(r, tool.s, "clang-format")
                files == collect_sources(order, cfg)
            IN IF Failed(r1) THEN r1
               ELSE IF Raised(files) THEN Exc(r1, "TypeError")
               ELSE IF files.v = <<>> THEN Say(r1, "No file to format!")
               ELSE LET r2 == RunEach(r1, tool.s, <<"-i">>, files.v, rcs)
                    IN IF Failed(r2) THEN r2 ELSE Say(r2, "OK: file(s) formated.")

cmd_tidy(args, order, rcs) ==
    LET r == Base("tidy", args)
        cfg == load_config(cfgFile)
        tool == Get2(cfg, "tools", "clang_tidy")
    IN IF Raised(cfg) THEN Exc(r, "config")
       ELSE IF Raised(tool) THEN Exc(r, "TypeError")
       ELSE IF ~IsStr(tool) THEN Exc(r, "TypeError")
       ELSE LET r1 == which_or_die(r, tool.s, "clang-tidy")
                preset == PresetOf(args, cfg, "build")
                files == collect_sources(order, cfg)
            IN IF Failed(r1) THEN r1
               ELSE IF Raised(preset) \/ ~IsStr(preset) THEN Exc(r1, "TypeError")
               ELSE IF ~BdirCC(preset.s) THEN Die(r1, "compile_commands.json not found")
               ELSE IF Raised(files) THEN Exc(r1, "TypeError")
               ELSE IF files.v = <<>> THEN Say(r1, "No file to analyze")
               ELSE LET r2 == RunEach(r1, tool.s, <<"-p", preset.s>>, files.v, rcs)
                    IN IF Failed(r2) THEN r2 ELSE Say(r2, "OK: tidy check done")

(***************************************************************************)
(* What the external build may leave in the build-output directory: it is  *)
(* untouched, or it holds the project's executable, newer than the rest,   *)
(* and the compilation database.                                           *)
(***************************************************************************)
BuildEffects == {"none", "artifact"}
MaxOf(S) == IF S = {} THEN 0 ELSE CHOOSE x \in S : \A y \in S : y <= x

BuildState == [files |-> bfiles, exists |-> bdirExists, cc |-> bdirCC]
AfterBuild(eff, preset) ==
    LET path == <<<<>>, "raider-proj", "">>
        rest == {e \in bfiles : PathOf(e) # path}
    IN IF eff = "artifact" /\ preset = "dev" /\ \A e \in bfiles \ rest : e.kind = "file"
       THEN [files |-> rest \cup {[dir |-> <<>>, stem |-> "raider-proj", ext |-> "",
                                   kind |-> "file", xok |-> TRUE,
                                   mtime |-> 1 + MaxOf({e.mtime : e \in rest})]},
             exists |-> TRUE, cc |-> TRUE]
       ELSE BuildState

cmd_configure(args, rc) ==
    LET r == OneTool(Base("configure", args), "cmake", "cmake", "configure", rc)
    IN IF Failed(r) THEN r ELSE Say(r, "OK: config done!")

cmd_test(args, rc) ==
    LET r == OneTool(Base("test", args), "ctest", "ctest", "test", rc)
    IN IF Failed(r) THEN r ELSE Say(r, "OK: tests done!")


\* The handler's record, compile_commands.json at the root and the
\* build-output directory when it returns.  linkOK: whether symlink_to works.
cmd_build(args, rc, eff, linkOK) ==
    LET cfg == load_config(cfgFile)
        r == OneTool(Base("build", args), "cmake", "cmake", "build", rc)
        preset == PresetOf(args, cfg, "build")
        after == IF r.ran # <<>> THEN AfterBuild(eff, preset.s) ELSE BuildState
        cc == r.ran # <<>> /\ after.exists /\ preset.s = "dev" /\ after.cc
    IN IF Failed(r) THEN [res |-> r, rootCC |-> rootCC, b |-> after]
       ELSE IF cc
       THEN [res |-> Say(Say(r, IF linkOK THEN "OK: symlink compile_commands.json at root."
                                 ELSE "OK: compile_commands.json copied at root."),
                         "OK: build done!."),
             rootCC |-> IF linkOK THEN "symlink" ELSE "copy", b |-> after]
       ELSE [res |-> Say(r, "OK: build done!."), rootCC |-> rootCC, b |-> after]

(***************************************************************************)
(* The run command.                                                        *)
(***************************************************************************)
Lower(ext) ==
    CASE ext = ".EXE" -> ".exe"
      [] ext = ".O" -> ".o"
      [] OTHER -> ext

LibExts == {".a", ".so", ".dylib", ".lib", ".pdb", ".obj", ".o", ".cmake"}
ExeExts == {".exe", ".bat", ".cmd"}

\* A faulty order of the candidates: bin/ before the build-output directory itself.
Candidates_bin_first(target) ==
    << <<<<"bin">>, target, "">>, <<<<"bin">>, target, ".exe">>,
       <<<<>>, target, "">>, <<<<>>, target, ".exe">> >>

\* bdir/target, bdir/target.exe, bdir/bin/target, bdir/bin/target.exe
Candidates(target) ==
    << <<<<>>, target, "">>, <<<<>>, target, ".exe">>,
       <<<<"bin">>, target, "">>, <<<<"bin">>, target, ".exe">> >>

\* c.exists() and c.is_file()
IsFileAt(entries, path) == \E e \in entries : PathOf(e) = path /\ e.kind = "file"
EntryAt(entries, path) == CHOOSE e \in entries : PathOf(e) = path

\* p.parts of an entry under the build-output directory.
Parts(preset, p) ==
    Range(rootParts) \cup {"build", preset} \cup Range(p.dir)
        \cup (IF p.ext = "" THEN {p.stem} ELSE {})

\* A faulty fallback filter: the execute permission is not tested.
Runnable_any_mode(preset, p) ==
    /\ p.kind = "file"
    /\ "CMakeFiles" \notin Parts(preset, p)
    /\ Lower(p.ext) \notin LibExts
    /\ IF osName = "nt" THEN Lower(p.ext) \in ExeExts ELSE p.ext = ""

\* The files the fallback keeps.
Runnable(preset, p) ==
    /\ p.kind = "file"
    /\ "CMakeFiles" \notin Parts(preset, p)
    /\ Lower(p.ext) \notin LibExts
    /\ IF osName = "nt" THEN Lower(p.ext) \in ExeExts
       ELSE p.ext = "" /\ p.xok

\* found.sort(key=mtime, reverse=True); found[0] -- the sort is stable, so
\* any file of the greatest modification time may come first.
Newest(found) == {p \in found : \A q \in found : q.mtime <= p.mtime}

\* Whether the operating system starts the file as a program.
CanExec(p) == IF osName = "nt" THEN Lower(p.ext) \in ExeExts ELSE p.xok

\* print(">> running: ..."); subprocess.run([exe, *prog_args], check=False)
Launch(r, exe, childrc) ==
    LET r1 == [Say(r, ">> running") EXCEPT !.launched = exe]
    IN IF ~CanExec(exe) THEN Exc(r1, "OSError")
       ELSE [r1 EXCEPT !.started = TRUE, !.childrc = childrc]

\* args.target or cfg.get("run", {}).get("target") or cfg["project"]["name"]
TargetOf(args, cfg) ==
    IF args.target # "" THEN Str(args.target)
    ELSE LET section == IF "run" \in Keys(cfg) THEN cfg.m["run"] ELSE EmptyMap
         IN IF ~IsMap(section) THEN Raise
            ELSE LET rt == IF "target" \in Keys(section) THEN section.m["target"] ELSE Null
                 IN IF Truthy(rt) THEN rt ELSE Get2(cfg, "project", "name")

\* The search for the executable and its launch, in the build-output
\* directory as `b` has it.
FindAndLaunch(r, preset, target, b, childrc) ==
    LET entries == IF preset = "dev" /\ b.exists THEN b.files ELSE {}
        cands == Candidates(target)
        hits == {i \in DOMAIN cands : IsFileAt(entries, cands[i])}
        found == {p \in entries : Runnable(preset, p)}
        r1 == [r EXCEPT !.target = target, !.searched = TRUE]
    IN IF hits # {}
       THEN {Launch([r1 EXCEPT !.via = "candidate", !.cand = Min(hits)],
                    EntryAt(entries, cands[Min(hits)]), childrc)}
       ELSE IF found # {}
       THEN {Launch([r1 EXCEPT !.via = "fallback"], exe, childrc) : exe \in Newest(found)}
       ELSE {Die(r1, "Could not find executable")}

\* The records the handler may end with, each with the build-output
\* directory it leaves.
cmd_run(args, rc, eff, childrc) ==
    LET r == Base("run", args)
        cfg == load_config(cfgFile)
        preset == PresetOf(args, cfg, "build")
        cmake == Get2(cfg, "tools", "cmake")
        r1 == IF args.build THEN tool_or_die(r, cmake.s, "cmake") ELSE r
        r2 == IF args.build
              THEN run(r1, Argv(resolve_tool(cmake.s)[1], BuildArgv(preset.s), None), rc)
              ELSE r1
        b == IF args.build THEN AfterBuild(eff, preset.s) ELSE BuildState
        target == TargetOf(args, cfg)
        With(S, bs) == {[res |-> x, b |-> bs] : x \in S}
    IN IF Raised(cfg) THEN With({Exc(r, "config")}, BuildState)
       ELSE IF Raised(preset) \/ ~IsStr(preset) THEN With({Exc(r, "TypeError")}, BuildState)
       ELSE IF args.build /\ (Raised(cmake) \/ ~IsStr(cmake))
       THEN With({Exc(r, "TypeError")}, BuildState)
       ELSE IF Failed(r1) THEN With({r1}, BuildState)
       ELSE IF Failed(r2) THEN With({r2}, b)
       ELSE IF Raised(target) \/ ~IsStr(target) THEN With({Exc(r2, "TypeError")}, b)
       ELSE With(FindAndLaunch(r2, preset.s, target.s, b, childrc), b)

\* path = resolve_tool(exe); if path: -- the truth value of the pair returned.
check_found(exe) == TruthyTuple(resolve_tool(exe))

cmd_check(args) ==
    LET cfg == load_config(cfgFile)
        r == Base("check", args)
        found == {e \in Range(ProbedTools) : check_found(e)}
        missing == Range(ProbedTools) \ found
        ok_all == missing = {}
        r1 == [r EXCEPT !.report = {<<e, "found">> : e \in found}
                                    \cup {<<e, "NOT FOUND">> : e \in missing}
                                    \cup {<<"compile_commands.json",
                                             IF rootCC # "absent" THEN "OK" ELSE "missing">>}]
    IN IF Raised(cfg) THEN Exc(r, "config")
       ELSE IF ~ok_all THEN [r1 EXCEPT !.exit = 1, !.err = "SystemExit"]
       ELSE r1

(***************************************************************************)
(* templates.py and render.  A text is the sequence of its pieces: each    *)
(* piece is a placeholder token or a run of text that holds none.  No      *)
(* template has a "@" next to a placeholder, so a placeholder is never put *)
(* together from the end of one piece and the start of the next.           *)
(***************************************************************************)
TEMPL_CMAKELISTS ==
    <<"cmake_minimum_required(VERSION 3.20)\nproject(", "@NAME@", " LANGUAGES CXX)\n\nset(CMAKE_CXX_STANDARD ",
      "@CXXSTD@", ")\nset(CMAKE_CXX_STANDARD_REQUIRED ON)\nset(CMAKE_EXPORT_COMPILE_COMMANDS ON)\n\nadd_library(",
      "@NAME@", "_lib\n    src/main.cpp\n)\ntarget_include_directories(",
      "@NAME@", "_lib PUBLIC ${CMAKE_CURRENT_SOURCE_DIR}/src)\n\nadd_executable(",
      "@NAME@", " src/main.cpp)\ntarget_link_libraries(", "@NAME@", " PRIVATE ", "@NAME@",
      "_lib)\n\nenable_testing()\nadd_executable(", "@NAME@", "_tests tests/test_main.cpp)\ntarget_link_libraries(",
      "@NAME@", "_tests PRIVATE ", "@NAME@", "_lib)\nadd_test(NAME ", "@NAME@", "_tests COMMAND ",
      "@NAME@", "_tests)\n">>
TEMPL_MAIN ==
    <<"#include <iostream>\n\nint main() {\n    std::cout << \"Hello raider from ", "@NAME@",
      "!\\n\";\n    return 0;\n}\n">>
TEMPL_TEST == <<"TEMPL_TEST">>
TEMPL_PRESETS == <<"TEMPL_PRESETS">>
TEMPL_CLANGD == <<"TEMPL_CLANGD">>
TEMPL_CLANG_TIDY == <<"TEMPL_CLANG_TIDY">>
TEMPL_CLANG_FORMAT == <<"TEMPL_CLANG_FORMAT">>
TEMPL_VCPKG ==
    <<"{\n  \"name\": \"", "@NAME@", "\",\n  \"version-string\": \"0.1.0\",\n  \"dependencies\": []\n}\n">>

\* f"@{k.upper()}@" for the keyword arguments init passes.
Placeholder(k) == CASE k = "name" -> "@NAME@" [] k = "cxxstd" -> "@CXXSTD@"

RECURSIVE Flatten(_)
Flatten(ss) == IF ss = <<>> THEN <<>> ELSE Head(ss) \o Flatten(Tail(ss))

\* str.replace(old, new): every occurrence of old, left to right; what is
\* put in is not looked at again by the same call.
Replace(text, old, new) ==
    Flatten([i \in DOMAIN text |-> IF text[i] = old THEN new ELSE <<text[i]>>])

\* str(v) as a text.
PyStr(v) ==
    CASE v.t = "str" -> <<v.s>>
      [] v.t = "num" -> <<CASE v.n = 11 -> "11" [] v.n = 17 -> "17" [] v.n = 20 -> "20" [] OTHER -> "n">>
      [] OTHER -> <<"None">>

\* kw is the keyword arguments in the order of the call: <<key, value>> pairs.
RECURSIVE render(_, _)
render(template, kw) ==
    IF kw = <<>> THEN template
    ELSE render(Replace(template, Placeholder(kw[1][1]), PyStr(kw[1][2])), Tail(kw))

(***************************************************************************)
(* init.  A file is named by the segments of its path under the project    *)
(* root; skel maps the files that exist to their content, which is a text  *)
(* or, for a file json.dumps wrote, the JSON value written.                *)
(***************************************************************************)
Text(toks) == [t |-> "text", toks |-> toks]

\* A faulty write: the destination is written whether or not it exists.
write_always(files, path, content) ==
    [q \in DOMAIN files \cup {path} |-> IF q = path THEN content ELSE files[q]]

write_if_missing(files, path, content) ==
    IF path \in DOMAIN files THEN files ELSE files @@ (path :> content)

\* The paths at which deep_merge(dst, src) returns the very object dst holds:
\* out = dict(dst) copies the top level only, so a mapping or array of dst
\* that src does not override is shared, and so on inside merged mappings.
Mutable(v) == v.t \in {"map", "arr"}
RECURSIVE SharedWith(_, _)
SharedWith(dst, src) ==
    {<<k>> : k \in {x \in Keys(dst) \ Keys(src) : Mutable(dst.m[x])}}
    \cup UNION {{<<k>> \o q : q \in SharedWith(dst.m[k], src.m[k])} :
                  k \in {x \in Keys(dst) \cap Keys(src) : IsMap(dst.m[x]) /\ IsMap(src.m[x])}}
\* The objects of DEFAULT_CONFIG that the mapping load_config returns holds.
Aliased(file) ==
    IF file = Absent \/ ~IsMap(file) THEN {} ELSE SharedWith(DEFAULT_CONFIG, file)

\* cfg[section][key] = v
SetItem(cfg, section, key, v) ==
    [cfg EXCEPT !.m[section] = Map((key :> v) @@ @.m)]

\* int(v)
PyInt(v) ==
    CASE v.t = "num" -> v
      [] v.t = "str" -> (CASE v.s = "17" -> Num(17) [] v.s = "20" -> Num(20) [] OTHER -> Raise)
      [] OTHER -> Raise

Segs(dir, file) == <<dir, file>>

\* A faulty save: the file is written, then written again.
save_config_twice(r, cfg) == [rec |-> [r EXCEPT !.saves = @ + 2], file |-> cfg]

\* path.write_text(json.dumps(cfg)): the record counts the write, the file
\* holds the value.
save_config(r, cfg) == [rec |-> [r EXCEPT !.saves = @ + 1], file |-> cfg]


cmd_init(args) ==
    LET r == Base("init", args)
        cfg == load_config(cfgFile)
        Stop(rr, fs) == [res |-> rr, files |-> fs, cfg |-> cfgFile]
    IN IF Raised(cfg) THEN Stop(Exc(r, "config"), skel) ELSE
       LET name == IF args.name # "" THEN Str(args.name) ELSE Get2(cfg, "project", "name")
           cxxstd == IF args.cxxstd # 0 THEN Num(args.cxxstd)
                     ELSE Get2(cfg, "project", "cxx_standard")
       IN IF Raised(name) \/ Raised(cxxstd) \/ ~IsMap(cfg.m["project"])
          THEN Stop(Exc(r, "TypeError"), skel) ELSE
       LET shared == <<"project">> \in Aliased(cfgFile)
           cfg1 == SetItem(cfg, "project", "name", name)
           r1 == IF shared
                 THEN [r EXCEPT !.defaults = SetItem(@, "project", "name", name)] ELSE r
           n == PyInt(cxxstd)
       IN IF Raised(n) THEN Stop(Exc(r1, "ValueError"), skel) ELSE
       LET cfg2 == SetItem(cfg1, "project", "cxx_standard", n)
           r2 == IF shared
                 THEN [r1 EXCEPT !.defaults = SetItem(@, "project", "cxx_standard", n)] ELSE r1
           src == Get2(cfg2, "paths", "src_dir")
           tests == Get2(cfg2, "paths", "tests_dir")
       IN IF Raised(src) \/ Raised(tests) \/ ~IsStr(src) \/ ~IsStr(tests)
          THEN Stop(Exc(r2, "TypeError"), skel) ELSE
       LET f1 == write_if_missing(skel, <<"CMakePresets.json">>, Text(TEMPL_PRESETS))
           f2 == write_if_missing(f1, <<".clangd">>, Text(TEMPL_CLANGD))
           f3 == write_if_missing(f2, <<".clang-tidy">>, Text(TEMPL_CLANG_TIDY))
           f4 == write_if_missing(f3, <<".clang-format">>, Text(TEMPL_CLANG_FORMAT))
           f5 == write_if_missing(f4, <<"CMakeLists.txt">>,
                    Text(render(TEMPL_CMAKELISTS, << <<"name", name>>, <<"cxxstd", cxxstd>> >>)))
           f6 == write_if_missing(f5, Segs(src.s, "main.cpp"),
                    Text(render(TEMPL_MAIN, << <<"name", name>> >>)))
           f7 == write_if_missing(f6, Segs(tests.s, "test_main.cpp"), Text(TEMPL_TEST))
           manager == Get2(cfg2, "deps", "manager")
           manifest == Get2(cfg2, "deps", "manifest")
       IN IF Raised(manager) THEN Stop(Exc(r2, "TypeError"), f7)
          ELSE IF manager = Str("vcpkg") /\ (Raised(manifest) \/ ~IsStr(manifest))
          THEN Stop(Exc(r2, "TypeError"), f7) ELSE
       LET f8 == IF manager = Str("vcpkg")
                 THEN write_if_missing(f7, <<manifest.s>>,
                         Text(render(TEMPL_VCPKG, << <<"name", name>> >>)))
                 ELSE f7
           sv == save_config(r2, cfg2)
       IN [res |-> Say(sv.rec, "OK: init is done"), files |-> f8, cfg |-> sv.file]

(***************************************************************************)
(* deps add and deps remove.  The entries of the dependency list are the   *)
(* package names, as strings.                                              *)
(***************************************************************************)
\* json.loads of a file's content: a file json.dumps wrote holds its value;
\* of the texts, the rendered manifest template parses (for a name without
\* quote or backslash), a user's free text does not.
read_json(content) ==
    IF content.t # "text" THEN content
    ELSE IF /\ Len(content.toks) = 3
            /\ content.toks[1] = TEMPL_VCPKG[1]
            /\ content.toks[3] = TEMPL_VCPKG[3]
         THEN Map(("name" :> Str(content.toks[2])) @@ ("version-string" :> Str("0.1.0"))
                  @@ ("dependencies" :> Arr(<<>>)))
         ELSE Invalid

\* path.write_text(json.dumps(obj, indent=2))
write_json(files, path, obj) == [q \in DOMAIN files \cup {path} |-> IF q = path THEN obj ELSE files[q]]

\* str.strip()
Strip(s) == CASE s = " fmt" -> "fmt" [] s = "zlib " -> "zlib" [] OTHER -> s

\* A faulty membership test: only the last entry is compared.
InList_last_only(deps, pkg) == deps # <<>> /\ deps[Len(deps)] = pkg

\* pkg in deps
InList(deps, pkg) == \E i \in DOMAIN deps : deps[i] = pkg

\* A faulty removal: the last entry is moved into the place of the first match.
list_remove_swap(deps, pkg) ==
    LET i == Min({j \in DOMAIN deps : deps[j] = pkg})
        n == Len(deps)
    IN [j \in 1..(n - 1) |-> IF j = i THEN deps[n] ELSE deps[j]]

\* deps.remove(pkg): the first entry equal to pkg goes, the others close up.
list_remove(deps, pkg) ==
    LET i == Min({j \in DOMAIN deps : deps[j] = pkg})
    IN [j \in 1..(Len(deps) - 1) |-> IF j < i THEN deps[j] ELSE deps[j + 1]]

\* The part add and remove share, up to the list read from the manifest:
\* the record, and when it has not failed the path, the data and the list.
deps_open(r, cfgfile, files) ==
    LET cfg == load_config(cfgfile)
        Stop(rr) == [res |-> rr, path |-> <<>>, data |-> Null, deps |-> <<>>]
    IN IF Raised(cfg) THEN Stop(Exc(r, "config")) ELSE
       LET manager == Get2(cfg, "deps", "manager")
           manifest == Get2(cfg, "deps", "manifest")
       IN IF Raised(manager) THEN Stop(Exc(r, "TypeError"))
          ELSE IF manager # Str("vcpkg")
          THEN Stop(Die(r, "deps add/remove(WIP) only supports vcpkg manifest (vcpkg.json)."))
          ELSE IF Raised(manifest) \/ ~IsStr(manifest) THEN Stop(Exc(r, "TypeError"))
          ELSE IF <<manifest.s>> \notin DOMAIN files THEN Stop(Die(r, "Manifest not found"))
          ELSE
       LET data == read_json(files[<<manifest.s>>])
       IN IF data = Invalid THEN Stop(Exc(r, "JSONDecodeError"))
          ELSE IF ~IsMap(data) THEN Stop(Exc(r, "AttributeError"))
          ELSE
       LET deps == IF HasKey(data, "dependencies") THEN data.m["dependencies"] ELSE Arr(<<>>)
       IN IF deps.t # "arr"
          THEN Stop(Die(r, "invalid vcpkg.json: 'dependencies' needs to be a LIST"))
          ELSE [res |-> r, path |-> <<manifest.s>>, data |-> data, deps |-> deps.a]

\* data["dependencies"] = deps
WithDeps(data, deps) == Map(("dependencies" :> Arr(deps)) @@ data.m)

\* What an invocation that has read the manifest does next, to the files as
\* they are by then.
deps_add_finish(o, files) ==
    LET pkg == Strip(o.res.args.package)
    IN IF InList(o.deps, pkg)
       THEN [res |-> Say(o.res, "Already exists"), files |-> files]
       ELSE [res |-> Say(o.res, "OK: added"),
             files |-> write_json(files, o.path, WithDeps(o.data, Append(o.deps, pkg)))]
deps_remove_finish(o, files) ==
    LET pkg == Strip(o.res.args.package)
    IN IF ~InList(o.deps, pkg)
       THEN [res |-> Say(o.res, "Not found"), files |-> files]
       ELSE [res |-> Say(o.res, "OK: removed"),
             files |-> write_json(files, o.path, WithDeps(o.data, list_remove(o.deps, pkg)))]

cmd_deps_add(args, files) ==
    LET o == deps_open(Base("deps add", args), cfgFile, files)
    IN IF Failed(o.res) THEN [res |-> o.res, files |-> files] ELSE deps_add_finish(o, files)
cmd_deps_remove(args, files) ==
    LET o == deps_open(Base("deps remove", args), cfgFile, files)
    IN IF Failed(o.res) THEN [res |-> o.res, files |-> files] ELSE deps_remove_finish(o, files)

(***************************************************************************)
(* deps bootstrap.  vcpkg maps each destination directory to what is       *)
(* there: whether it is absent, a directory without .git or a clone,       *)
(* whether the platform's bootstrap script is in it, and the vcpkg binary. *)
(***************************************************************************)
Dests == {"/home/proj/.tools/vcpkg", "/opt/vcpkg"}
\* (root / p).resolve(), and Path(args.dir).resolve()
Resolve(p) == IF p = ".tools/vcpkg" THEN "/home/proj/.tools/vcpkg" ELSE p

Step(r, name) == [r EXCEPT !.steps = Append(@, name)]

\* A faulty check: the binary is not looked for.
verify_exe_skipped(r, st) == Step(r, "verify")

\* if not vcpkg_exe.exists(): raise SystemExit(...)
verify_exe(r, st) ==
    IF ~st.exe THEN Die(Step(r, "verify"), "Failed vcpkg exe generation.") ELSE Step(r, "verify")

\* What git clone and the bootstrap script leave when they end well: clone
\* tells whether the clone holds the platform's script, boot whether the
\* script produced the binary.
BootEffects == [script : BOOLEAN, exe : BOOLEAN]

cmd_deps_bootstrap(args, rcClone, rcBoot, eff) ==
    LET r == Base("deps bootstrap", args)
        cfg == load_config(cfgFile)
        Stop(rr, v) == [res |-> rr, vcpkg |-> v, cfg |-> cfgFile]
    IN IF Raised(cfg) THEN Stop(Exc(r, "config"), vcpkg)
       ELSE IF args.dir = "" /\ ~IsMap(cfg.m["deps"])
       THEN Stop(Exc(r, "AttributeError"), vcpkg) ELSE
       LET root == IF HasKey(cfg.m["deps"], "vcpkg_root") THEN cfg.m["deps"].m["vcpkg_root"]
                   ELSE Str(".tools/vcpkg")
       IN IF args.dir = "" /\ ~IsStr(root) THEN Stop(Exc(r, "TypeError"), vcpkg) ELSE
       LET dest == Resolve(IF args.dir # "" THEN args.dir ELSE root.s)
           r0 == [r EXCEPT !.dest = dest]
       IN IF which("git") = None
          THEN Stop(Die(r0, "git not found in PATH (needed for vcpkg)."), vcpkg) ELSE
       LET st == vcpkg[dest]
           r1 == Step(r0, "exists?")
           r2 == IF st.clone = "clone" THEN Say(r1, "vcpkg already in")
                 ELSE run(Step(r1, "clone"), Argv("git", <<"clone">>, None), rcClone)
           st2 == IF st.clone # "clone" /\ ~Failed(r2)
                  THEN [st EXCEPT !.clone = "clone", !.script = eff.script] ELSE st
           v2 == [vcpkg EXCEPT ![dest] = st2]
       IN IF Failed(r2) THEN Stop(r2, v2)
          ELSE IF ~st2.script
          THEN Stop(Die(r2, IF osName = "nt" THEN "bootstrap-vcpkg.bat not found"
                            ELSE "bootstrap-vcpkg.sh not found"), v2) ELSE
       LET r3 == run(Step(r2, "bootstrap"),
                     Argv(IF osName = "nt" THEN "bootstrap-vcpkg.bat" ELSE "bash", <<>>, None),
                     rcBoot)
           st3 == IF ~Failed(r3) THEN [st2 EXCEPT !.exe = @ \/ eff.exe] ELSE st2
           v3 == [vcpkg EXCEPT ![dest] = st3]
       IN IF Failed(r3) THEN Stop(r3, v3) ELSE
       LET r4 == verify_exe(r3, st3)
       IN IF Failed(r4) THEN Stop(r4, v3)
          ELSE IF ~IsMap(cfg.m["deps"]) THEN Stop(Exc(r4, "TypeError"), v3) ELSE
       LET shared == <<"deps">> \in Aliased(cfgFile)
           cfg1 == SetItem(SetItem(cfg, "deps", "manager", Str("vcpkg")),
                           "deps", "vcpkg_root", Str(dest))
           r5 == IF shared
                 THEN [r4 EXCEPT !.defaults = SetItem(SetItem(@, "deps", "manager", Str("vcpkg")),
                                                      "deps", "vcpkg_root", Str(dest))]
                 ELSE r4
           sv == save_config(Step(r5, "save"), cfg1)
       IN [res |-> Say(sv.rec, "OK: vcpkg ready"), vcpkg |-> v3, cfg |-> sv.file]

(***************************************************************************)
(* The raid commands.                                                      *)
(***************************************************************************)
cmd_raid_ready(args) ==
    Say(Say(Base("raid ready", args), "=== RAID READY CHECK ==="), "Type 'raider raid consumes'")
cmd_raid_consumes(args) ==
    Say(Say(Base("raid consumes", args), "=== CONSUMABLES CHECKLIST ==="), "Tip: keep 2+ stacks")
cmd_raid_pull(args) ==
    IF args.seconds <= 0 THEN Say(Base("raid pull", args), "Pull timer needs to be > 0.")
    ELSE Say(Say(Base("raid pull", args), "=== PULL IN ==="), "PULL NOW!")

\* The generator after random.seed(seed), and without a seed as the
\* interpreter set it up from the system's entropy.
Seeded(seed) == [from |-> "seed", n |-> seed]
Unseeded(entropy) == [from |-> "entropy", n |-> entropy]
\* The values random.sample, randint and choice return in the order they
\* are called: a function of the generator's state alone.
Draws(rng) == [picks |-> <<"sample", rng>>, dps |-> <<"randint", rng>>,
               boss |-> <<"choice", rng>>, duration |-> <<"randint", rng>>]
MaxOfTwo(a, b) == IF a >= b THEN a ELSE b

\* ts is what time.strftime("%H:%M:%S") returns when it is called.
cmd_raid_meters(args, ts, entropy) ==
    LET rng == IF args.seed # Null THEN Seeded(args.seed.n) ELSE Unseeded(entropy)
        width == MaxOfTwo(10, args.width)
        d == Draws(rng)
        printed == <<[line |-> "=== Details! Damage Done (Top 5) ===", ts |-> ts],
                     [line |-> "Fight", boss |-> d.boss, duration |-> d.duration],
                     [line |-> "-", n |-> width + 38],
                     [line |-> "bars", picks |-> d.picks, dps |-> d.dps, width |-> width],
                     [line |-> "-", n |-> width + 38],
                     [line |-> "Tip: blame priest for not giving PI"]>>
    IN [Say(Base("raid meters", args), "Tip: blame priest for not giving PI")
          EXCEPT !.printed = printed]

\* Each invocation is a fresh process: it starts with nothing recorded, and
\* the record of the invocation goes when the process exits.
Idle == last = NoCmd
Exit ==
    /\ ~Idle
    /\ last' = NoCmd
    /\ UNCHANGED <<world, rootCC>>

Configure ==
    /\ Idle
    /\ \E preset \in PresetArgs, rc \in ExitCodes :
          last' = cmd_configure([preset |-> preset], rc)
    /\ UNCHANGED <<world, rootCC>>

Test ==
    /\ Idle
    /\ \E preset \in PresetArgs, rc \in ExitCodes :
          last' = cmd_test([preset |-> preset], rc)
    /\ UNCHANGED <<world, rootCC>>

Check ==
    /\ Idle
    /\ last' = cmd_check([none |-> TRUE])
    /\ UNCHANGED <<world, rootCC>>

Build ==
    /\ Idle
    /\ \E preset \in PresetArgs, rc \in ExitCodes, eff \in BuildEffects, linkOK \in BOOLEAN :
          LET o == cmd_build([preset |-> preset], rc, eff, linkOK)
          IN /\ last' = o.res
             /\ rootCC' = o.rootCC
             /\ bfiles' = o.b.files
             /\ bdirExists' = o.b.exists
             /\ bdirCC' = o.b.cc
    /\ UNCHANGED <<env, proj>>

\* What init leaves alone.
machine == <<osName, vbinDirs, vfiles, onPath, rootParts>>
rest == <<build, rootCC, vcpkg, shown, procs>>

InitNames == {"", "app", "demo", "@CXXSTD@"}
PlainNames == {"", "app", "demo"}
CxxStdArgs == {0, 17}
\* The source files among the files init wrote, as collect_sources finds them.
NewSources(before, after) ==
    {File(<<q[1]>>, "main", ".cpp") : q \in {x \in DOMAIN after \ DOMAIN before :
                                                Len(x) = 2 /\ x[2] = "main.cpp"}}
    \cup {File(<<q[1]>>, "test_main", ".cpp") : q \in {x \in DOMAIN after \ DOMAIN before :
                                                       Len(x) = 2 /\ x[2] = "test_main.cpp"}}
InitWith(names) ==
    /\ Idle
    /\ \E name \in names, cxxstd \in CxxStdArgs :
          LET o == cmd_init([name |-> name, cxxstd |-> cxxstd])
          IN /\ last' = o.res
             /\ skel' = o.files
             /\ cfgFile' = o.cfg
             /\ tree' = tree \cup NewSources(skel, o.files)
    /\ UNCHANGED <<machine, rest>>
InitCmd == InitWith(InitNames)
InitPlainNames == InitWith(PlainNames)

\* render called on its own: the templates init renders, the values a name
\* and a C++ standard can have when init reaches the call (an option value or
\* what the configuration file holds), and the keyword arguments in either
\* order of a call.
RenderTemplates == {TEMPL_CMAKELISTS, TEMPL_MAIN, TEMPL_VCPKG}
NameValues == {Str(""), Str("app"), Str("demo"), Str("@CXXSTD@"), Str("@NAME@"), Null}
CxxStdValues == {Num(11), Num(17), Num(20), Str("17"), Str("20")}
RenderKw ==
    {<< <<"name", n>> >> : n \in NameValues}
    \cup {<< <<"name", n>>, <<"cxxstd", c>> >> : n \in NameValues, c \in CxxStdValues}
    \cup {<< <<"cxxstd", c>>, <<"name", n>> >> : n \in NameValues, c \in CxxStdValues}
RenderCall ==
    /\ Idle
    /\ \E template \in RenderTemplates, kw \in RenderKw :
          last' = [cmd |-> "render", template |-> template, kw |-> kw,
                   text |-> render(template, kw)]
    /\ UNCHANGED <<world, rootCC>>

\* The user edits one of the files that exist.
UserEdit ==
    /\ Idle
    /\ \E q \in DOMAIN skel :
          /\ skel[q] # Text(<<"user edit">>)
          /\ skel' = [skel EXCEPT ![q] = Text(<<"user edit">>)]
    /\ UNCHANGED <<env, build, rootCC, vcpkg, shown, procs, last>>

PackageArgs == {"fmt", " fmt", "zlib", "boost"}
DepsAddWith(pkgs) ==
    /\ Idle
    /\ \E pkg \in pkgs :
          LET o == cmd_deps_add([package |-> pkg], skel)
          IN last' = o.res /\ skel' = o.files
    /\ UNCHANGED <<env, build, rootCC, vcpkg, shown, procs>>
DepsRemoveWith(pkgs) ==
    /\ Idle
    /\ \E pkg \in pkgs :
          LET o == cmd_deps_remove([package |-> pkg], skel)
          IN last' = o.res /\ skel' = o.files
    /\ UNCHANGED <<env, build, rootCC, vcpkg, shown, procs>>
DepsAdd == DepsAddWith(PackageArgs)
DepsRemove == DepsRemoveWith(PackageArgs)

\* Invocations of deps add and deps remove as separate processes: each reads
\* the manifest in one step and, from what it read, writes it in a later one;
\* nothing in the code keeps another process out in between.
Procs == {1, 2}
DepsRead(p) ==
    /\ procs[p].pc = "new"
    /\ LET o == deps_open(Base(procs[p].cmd, [package |-> procs[p].pkg]), cfgFile, skel)
       IN procs' = [procs EXCEPT ![p] = [@ EXCEPT !.pc = IF Failed(o.res) THEN "done" ELSE "read",
                                                  !.o = o]]
    /\ UNCHANGED <<env, build, rootCC, skel, vcpkg, shown, last>>
DepsFinish(p) ==
    /\ procs[p].pc = "read"
    /\ LET fin == IF procs[p].cmd = "deps add" THEN deps_add_finish(procs[p].o, skel)
                  ELSE deps_remove_finish(procs[p].o, skel)
       IN /\ skel' = fin.files
          /\ procs' = [procs EXCEPT ![p] = [@ EXCEPT !.pc = "done", !.o = [@ EXCEPT !.res = fin.res]]]
    /\ UNCHANGED <<env, build, rootCC, vcpkg, shown, last>>

DirArgs == {"", "/opt/vcpkg"}
DepsBootstrapWith(dirs) ==
    /\ Idle
    /\ \E dir \in dirs, rcClone \in ExitCodes, rcBoot \in ExitCodes, eff \in BootEffects :
          LET o == cmd_deps_bootstrap([dir |-> dir], rcClone, rcBoot, eff)
          IN last' = o.res /\ vcpkg' = o.vcpkg /\ cfgFile' = o.cfg
    /\ UNCHANGED <<machine, tree, build, rootCC, skel, shown, procs>>
DepsBootstrap == DepsBootstrapWith(DirArgs)

RaidReady ==
    /\ Idle
    /\ last' = cmd_raid_ready([none |-> TRUE])
    /\ UNCHANGED <<world, rootCC>>
RaidConsumes ==
    /\ Idle
    /\ last' = cmd_raid_consumes([none |-> TRUE])
    /\ UNCHANGED <<world, rootCC>>
SecondsArgs == {0, 2, 10}
RaidPull ==
    /\ Idle
    /\ \E seconds \in SecondsArgs : last' = cmd_raid_pull([seconds |-> seconds])
    /\ UNCHANGED <<world, rootCC>>

SeedArgs == {Null, Num(0), Num(7)}
WidthArgs == {5, 30, 40}
Times == {"21:04:59", "21:05:00", "21:05:01"}
Entropy == {"e1", "e2"}
\* shown keeps what this invocation and the one before it were given and printed.
RaidMetersWith(seeds, widths, times) ==
    /\ Idle
    /\ \E seed \in seeds, width \in widths, ts \in times, entropy \in Entropy :
          LET r == cmd_raid_meters([seed |-> seed, width |-> width], ts, entropy)
          IN /\ last' = r
             /\ shown' = <<[args |-> r.args, printed |-> r.printed]>> \o (IF shown = <<>> THEN <<>> ELSE <<shown[1]>>)
    /\ UNCHANGED <<env, build, rootCC, skel, vcpkg, procs>>
RaidMeters == RaidMetersWith(SeedArgs, WidthArgs, Times)

TargetArgs == {"", "app"}
ProgArgs == {<<>>, <<"--", "-v">>}
\* prog_args: a leading "--" is dropped
StripDashes(a) == IF a # <<>> /\ a[1] = "--" THEN Tail(a) ELSE a

Run ==
    /\ Idle
    /\ \E preset \in PresetArgs, target \in TargetArgs, bld \in BOOLEAN, pa \in ProgArgs,
          rc \in ExitCodes, eff \in BuildEffects, childrc \in ExitCodes :
          \E o \in cmd_run([preset |-> preset, target |-> target, build |-> bld,
                            args |-> StripDashes(pa)], rc, eff, childrc) :
             /\ last' = o.res
             /\ bfiles' = o.b.files
             /\ bdirExists' = o.b.exists
             /\ bdirCC' = o.b.cc
    /\ UNCHANGED <<env, rootCC, proj>>

Fmt ==
    /\ Idle
    /\ \E order \in Orders(UnderRoot), rcs \in [UnderRoot -> ExitCodes] :
          last' = cmd_fmt([none |-> TRUE], order, rcs)
    /\ UNCHANGED <<world, rootCC>>

Tidy ==
    /\ Idle
    /\ \E preset \in PresetArgs, order \in Orders(UnderRoot), rcs \in [UnderRoot -> ExitCodes] :
          last' = cmd_tidy([preset |-> preset], order, rcs)
    /\ UNCHANGED <<world, rootCC>>

\* collect_sources applied to the project root and the loaded configuration.
CollectSources ==
    /\ Idle
    /\ ~Raised(load_config(cfgFile))
    /\ \E order \in Orders(UnderRoot) :
          last' = [cmd |-> "collect_sources", order |-> order,
                   out |-> collect_sources(order, load_config(cfgFile))]
    /\ UNCHANGED <<world, rootCC>>

\* resolve_tool applied to a tool name.
ResolveTool ==
    /\ Idle
    /\ \E name \in Range(ProbedTools) :
          last' = [cmd |-> "resolve_tool", name |-> name, out |-> resolve_tool(name)]
    /\ UNCHANGED <<world, rootCC>>

\* deep_merge applied to a pair of mappings.
DeepMerge ==
    /\ Idle
    /\ \E pair \in (MergeDst \X MergeSrc) \cup ({DEFAULT_CONFIG} \X UserObjects) :
          last' = [cmd |-> "deep_merge", dst |-> pair[1], src |-> pair[2],
                   out |-> deep_merge(pair[1], pair[2])]
    /\ UNCHANGED <<world, rootCC>>

\* load_config applied to the project root.
LoadConfig ==
    /\ Idle
    /\ last' = [cmd |-> "load_config", out |-> load_config(cfgFile)]
    /\ UNCHANGED <<world, rootCC>>

(***************************************************************************)
(* Initial states.  Each specification starts from a plain machine and     *)
(* draws the part of it that its commands read.                            *)
(***************************************************************************)

VenvSlots == {<<"cmake", "">>, <<"cmake", ".exe">>, <<"cmake", ".bat">>}
NoVenvFiles == [slot \in VenvSlots |-> "absent"]
VbinChoices ==
    {[bin |-> "dir", Scripts |-> "absent"], [bin |-> "absent", Scripts |-> "dir"],
     [bin |-> "file", Scripts |-> "absent"]}
OffPathTools == {"cmake", "ctest"}

PlainTree ==
    {File(<<"src">>, "main", ".cpp"), File(<<"src">>, "util", ".hpp"),
     File(<<"tests">>, "test_main", ".cpp")}

\* No generated file, no package manager, nothing printed, nothing running.
NoVcpkg == [d \in Dests |-> [clone |-> "absent", script |-> FALSE, exe |-> FALSE]]
PlainProj ==
    /\ skel = <<>>
    /\ vcpkg = NoVcpkg
    /\ shown = <<>>
    /\ procs = <<>>
PlainToolEnv ==
    /\ osName = "posix"
    /\ vbinDirs = [bin |-> "dir", Scripts |-> "absent"]
    /\ vfiles = NoVenvFiles
    /\ onPath = Range(ProbedTools)
PlainRoot ==
    /\ rootParts = <<"home", "proj">>
    /\ tree = PlainTree
PlainBuild ==
    /\ bfiles = {}
    /\ bdirExists = FALSE
    /\ bdirCC = FALSE
    /\ rootCC = "absent"
    /\ PlainProj

InitMerge ==
    /\ PlainToolEnv /\ PlainRoot /\ PlainBuild
    /\ cfgFile = Absent
    /\ last = NoCmd

InitConfig ==
    /\ PlainToolEnv /\ PlainRoot /\ PlainBuild
    /\ cfgFile \in UserConfigs
    /\ last = NoCmd

InitTools ==
    /\ osName \in {"posix", "nt"}
    /\ vbinDirs \in VbinChoices
    /\ vfiles \in [VenvSlots -> Kinds]
    /\ venv_bin_dir = "None" => vfiles = NoVenvFiles
    /\ onPath \in {Range(ProbedTools) \ m : m \in SUBSET OffPathTools}
    /\ cfgFile = Absent
    /\ rootParts = <<"home", "proj">>
    /\ tree = {File(<<"src">>, "main", ".cpp")}
    /\ bfiles = {}
    /\ bdirExists = TRUE
    /\ bdirCC = TRUE
    /\ rootCC = "absent"
    /\ PlainProj
    /\ last = NoCmd

MaxTreeEntries == 3
TreeSlots ==
    {File(<<>>, "a", ".cpp"), File(<<>>, "b", ".py"), File(<<"build">>, "c", ".cpp"),
     File(<<"src">>, "m", ".cpp"), File(<<"src", "build">>, "g", ".cpp"),
     File(<<"src">>, "n", ".h"), Dir(<<>>, "gen", ".cpp"), File(<<".git", "hooks">>, "h", ".hpp")}
RootChoices ==
    {<<"home", "proj">>, <<"home", "build", "proj">>, <<"build">>, <<"work", ".cache", "p">>}
FormatConfigs ==
    {Absent,
     One("format", Map(("extensions" :> Arr(<<".cpp">>)) @@ ("exclude_dirs" :> Arr(<<"build">>)))),
     One("format", One("exclude_dirs", Arr(<<>>)))}

InitSources ==
    /\ PlainToolEnv /\ PlainBuild
    /\ rootParts \in RootChoices
    /\ tree \in {T \in SUBSET TreeSlots : Cardinality(T) <= MaxTreeEntries}
    /\ cfgFile \in FormatConfigs
    /\ last = NoCmd

MaxBuildEntries == 2
Exe(dir, stem, ext, xok, mtime) ==
    [dir |-> dir, stem |-> stem, ext |-> ext, kind |-> "file", xok |-> xok, mtime |-> mtime]
BuildSlots ==
    {Exe(<<>>, "raider-proj", "", TRUE, 2),
     [dir |-> <<>>, stem |-> "raider-proj", ext |-> "", kind |-> "dir", xok |-> TRUE, mtime |-> 1],
     Exe(<<>>, "raider-proj", ".exe", FALSE, 1),
     Exe(<<"bin">>, "raider-proj", "", TRUE, 3),
     Exe(<<"bin">>, "raider-proj", ".exe", FALSE, 1),
     Exe(<<>>, "app", "", TRUE, 1),
     Exe(<<>>, "svc", "", TRUE, 1),
     Exe(<<"CMakeFiles">>, "probe", "", TRUE, 5),
     Exe(<<>>, "tool", "", TRUE, 2),
     Exe(<<"sub">>, "tool", "", TRUE, 4),
     Exe(<<"sub">>, "other", "", TRUE, 2),
     Exe(<<>>, "helper", "", FALSE, 5),
     Exe(<<>>, "libx", ".so", TRUE, 5),
     Exe(<<>>, "demo", ".EXE", TRUE, 3)}
RunConfigs == {Absent, One("run", One("target", Str("svc")))}

InitRun ==
    /\ osName \in {"posix", "nt"}
    /\ vbinDirs = [bin |-> "dir", Scripts |-> "absent"]
    /\ vfiles = NoVenvFiles
    /\ onPath = Range(ProbedTools)
    /\ PlainRoot
    /\ cfgFile \in RunConfigs
    /\ bdirExists \in BOOLEAN
    /\ bfiles \in {B \in SUBSET BuildSlots : Cardinality(B) <= MaxBuildEntries /\ DistinctPaths(B)}
    /\ ~bdirExists => bfiles = {}
    /\ bdirCC = FALSE
    /\ rootCC = "absent"
    /\ PlainProj
    /\ last = NoCmd

\* A project before its first init, with the configuration files a user may
\* have put there.
InitConfigs ==
    {Absent, EmptyMap, One("project", One("name", Str("old"))),
     One("project", One("cxx_standard", Str("c++20"))),
     One("deps", One("manager", Str("none"))), One("deps", Null)}
InitProject ==
    /\ PlainToolEnv
    /\ rootParts = <<"home", "proj">>
    /\ tree = {}
    /\ bfiles = {} /\ bdirExists = FALSE /\ bdirCC = FALSE /\ rootCC = "absent"
    /\ cfgFile \in InitConfigs
    /\ skel \in {<<>>, <<"CMakeLists.txt">> :> Text(<<"user edit">>)}
    /\ vcpkg = NoVcpkg
    /\ shown = <<>>
    /\ procs = <<>>
    /\ last = NoCmd

\* Manifests: the one init writes, ones deps add wrote, ones a user wrote.
MaxDeps == 2
NoDup(deps) == \A i, j \in DOMAIN deps : deps[i] = deps[j] => i = j
DepLists ==
    {d \in UNION {[1..n -> {"fmt", "zlib", "boost"}] : n \in 0..MaxDeps} : NoDup(d)}
ManifestOf(deps) ==
    Map(("name" :> Str("app")) @@ ("version-string" :> Str("0.1.0")) @@ ("dependencies" :> deps))
Manifests ==
    {Text(render(TEMPL_VCPKG, << <<"name", Str("app")>> >>)), Text(<<"user edit">>),
     One("name", Str("app")), ManifestOf(Str("fmt")), Arr(<<"fmt">>)}
    \cup {ManifestOf(Arr(d)) : d \in DepLists}
InitDeps ==
    /\ PlainToolEnv /\ PlainRoot
    /\ bfiles = {} /\ bdirExists = FALSE /\ bdirCC = FALSE /\ rootCC = "absent"
    /\ cfgFile \in {Absent, One("deps", One("manager", Str("none")))}
    /\ skel \in {<<>>} \cup {<<"vcpkg.json">> :> m : m \in Manifests}
    /\ vcpkg = NoVcpkg
    /\ shown = <<>>
    /\ procs = <<>>
    /\ last = NoCmd

\* A machine with or without git, a destination that is absent, a plain
\* directory or a clone, with or without the script and the binary.
VcpkgStates ==
    {[clone |-> "absent", script |-> FALSE, exe |-> FALSE],
     [clone |-> "dir", script |-> FALSE, exe |-> FALSE],
     [clone |-> "dir", script |-> TRUE, exe |-> FALSE],
     [clone |-> "clone", script |-> TRUE, exe |-> FALSE],
     [clone |-> "clone", script |-> FALSE, exe |-> FALSE],
     [clone |-> "clone", script |-> TRUE, exe |-> TRUE]}
BootConfigs == {Absent, EmptyMap, One("deps", One("manager", Str("none"))), One("deps", Null)}
InitBootstrap ==
    /\ osName \in {"posix", "nt"}
    /\ vbinDirs = [bin |-> "dir", Scripts |-> "absent"]
    /\ vfiles = NoVenvFiles
    /\ onPath \in {Range(ProbedTools), Range(ProbedTools) \cup {"git"}}
    /\ PlainRoot
    /\ bfiles = {} /\ bdirExists = FALSE /\ bdirCC = FALSE /\ rootCC = "absent"
    /\ cfgFile \in BootConfigs
    /\ skel = <<>>
    /\ vcpkg \in [Dests -> VcpkgStates]
    /\ shown = <<>>
    /\ procs = <<>>
    /\ last = NoCmd

InitRaid ==
    /\ PlainToolEnv /\ PlainRoot /\ PlainBuild
    /\ cfgFile = Absent
    /\ last = NoCmd

\* Every command, on a machine that has the tools and git.
InitAll ==
    /\ osName = "posix"
    /\ vbinDirs = [bin |-> "dir", Scripts |-> "absent"]
    /\ vfiles = NoVenvFiles
    /\ onPath = Range(ProbedTools) \cup {"git"}
    /\ rootParts = <<"home", "proj">>
    /\ tree = {}
    /\ PlainBuild
    /\ cfgFile = Absent
    /\ last = NoCmd

\* Two deps invocations started side by side on a project with a manifest.
NotOpened == [res |-> NoCmd, path |-> <<>>, data |-> Null, deps |-> <<>>]
InitOverlap ==
    /\ PlainToolEnv /\ PlainRoot
    /\ bfiles = {} /\ bdirExists = FALSE /\ bdirCC = FALSE /\ rootCC = "absent"
    /\ cfgFile = Absent
    /\ skel \in {<<"vcpkg.json">> :> m : m \in Manifests}
    /\ vcpkg = NoVcpkg
    /\ shown = <<>>
    /\ procs \in [Procs -> [pc : {"new"}, cmd : {"deps add", "deps remove"},
                            pkg : {"fmt", "zlib"}, o : {NotOpened}]]
    /\ last = NoCmd

(***************************************************************************)
(* Specifications.                                                         *)
(***************************************************************************)
NextRender == RenderCall \/ Exit
InitRender == PlainToolEnv /\ PlainRoot /\ PlainBuild /\ cfgFile = Absent /\ last = NoCmd
SpecRender == InitRender /\ [][NextRender]_vars

NextReinit == InitPlainNames \/ Exit
SpecReinit == InitProject /\ [][NextReinit]_vars

NextOverlap == \E p \in Procs : DepsRead(p) \/ DepsFinish(p)
SpecOverlap == InitOverlap /\ [][NextOverlap]_vars

NextAll ==
    \/ InitWith({"app"})
    \/ DepsAddWith({"fmt"})
    \/ DepsRemoveWith({"fmt"})
    \/ DepsBootstrapWith({""})
    \/ Configure
    \/ Build
    \/ Run
    \/ Test
    \/ Fmt
    \/ Tidy
    \/ Check
    \/ RaidReady
    \/ RaidConsumes
    \/ RaidPull
    \/ RaidMetersWith({Num(7)}, {30}, {"21:05:00"})
    \/ Exit
SpecAll == InitAll /\ [][NextAll]_vars

NextRaid == RaidReady \/ RaidConsumes \/ RaidPull \/ RaidMeters \/ Exit
SpecRaid == InitRaid /\ [][NextRaid]_vars

NextBootstrap == DepsBootstrap \/ Exit
SpecBootstrap == InitBootstrap /\ [][NextBootstrap]_vars

NextDeps == DepsAdd \/ DepsRemove \/ Exit
SpecDeps == InitDeps /\ [][NextDeps]_vars

NextInit == InitCmd \/ UserEdit \/ Exit
SpecInit == InitProject /\ [][NextInit]_vars

NextMerge == DeepMerge \/ Exit
SpecMerge == InitMerge /\ [][NextMerge]_vars

NextConfig == LoadConfig \/ Exit
SpecConfig == InitConfig /\ [][NextConfig]_vars

NextTools ==
    \/ ResolveTool
    \/ Check
    \/ Configure
    \/ Build
    \/ Test
    \/ Fmt
    \/ Tidy
    \/ Run
    \/ Exit
SpecTools == InitTools /\ [][NextTools]_vars

\* The commands that run external programs, on a plain project.
InitPipeline ==
    /\ PlainToolEnv /\ PlainRoot
    /\ cfgFile = Absent
    /\ bfiles = {}
    /\ bdirExists \in BOOLEAN
    /\ bdirCC = bdirExists
    /\ rootCC \in {"absent", "file"}
    /\ PlainProj
    /\ last = NoCmd
NextPipeline ==
    \/ Configure
    \/ Build
    \/ Test
    \/ Fmt
    \/ Tidy
    \/ Run
    \/ Exit
SpecPipeline == InitPipeline /\ [][NextPipeline]_vars

NextSources == CollectSources \/ Exit
SpecSources == InitSources /\ [][NextSources]_vars

NextRun == Run \/ Exit
SpecRun == InitRun /\ [][NextRun]_vars

(***************************************************************************)
(* Properties.                                                             *)
(***************************************************************************)

\* Whether a tool is in the local bin directory (under one of the suffixes
\* tried on the platform) or on the search path.
InVenvBin(t) ==
    venv_bin_dir # "None" /\ \E i \in DOMAIN SuffixCandidates : VKind(t, SuffixCandidates[i]) # "absent"
ToolPresent(t) == InVenvBin(t) \/ t \in onPath

\* C1: check exits with a non-zero status whenever one of the probed tools
\* is neither in the local bin directory nor on the search path, reporting
\* that tool as missing, and exits with status zero only when every probed
\* tool is found.
C1_CheckFailsOnMissingTool ==
    last.cmd = "check" =>
        /\ \A t \in Range(ProbedTools) : ~ToolPresent(t) => <<t, "NOT FOUND">> \in last.report
        /\ last.exit = 0 <=> \A t \in Range(ProbedTools) : ToolPresent(t)

\* C2: a tool-requiring command (configure, build, test, fmt, tidy, run
\* --build) ends with "Tool not found" only when the tool is neither in the
\* local bin directory nor on the search path.
C2_ToolNotFoundOnlyWhenMissing ==
    /\ last.cmd \in {"configure", "build", "test", "fmt", "tidy", "run"}
    /\ "Tool not found" \in last.out
    => ~ToolPresent(last.tool)

\* The merge written as a relation between the two mappings and the result,
\* and a user mapping that sets one leaf under tools.
RECURSIVE IsReferenceMerge(_, _, _)
IsReferenceMerge(d, u, out) ==
    /\ IsMap(out)
    /\ Keys(out) = Keys(d) \cup Keys(u)
    /\ \A k \in Keys(out) :
          IF k \in Keys(d) /\ k \in Keys(u) /\ IsMap(d.m[k]) /\ IsMap(u.m[k])
          THEN IsReferenceMerge(d.m[k], u.m[k], out.m[k])
          ELSE IF k \in Keys(u) THEN out.m[k] = u.m[k]
          ELSE out.m[k] = d.m[k]
OneToolsLeaf(u) ==
    /\ Keys(u) = {"tools"}
    /\ IsMap(u.m["tools"])
    /\ Cardinality(Keys(u.m["tools"])) = 1
\* C3: deep_merge(defaults, user) is the reference merge: a key of both
\* whose two values are mappings is merged recursively, any other key of the
\* user takes the user's value whole (arrays included), a key of the
\* defaults alone keeps its value; so overriding one leaf under tools leaves
\* every other tools leaf and every other section equal to the defaults.
C3_DeepMergeIsReferenceMerge ==
    last.cmd = "deep_merge" =>
        /\ IsReferenceMerge(last.dst, last.src, last.out)
        /\ last.dst = DEFAULT_CONFIG /\ OneToolsLeaf(last.src) =>
              /\ \A sec \in SectionNames \ {"tools"} : last.out.m[sec] = DEFAULT_CONFIG.m[sec]
              /\ \A leaf \in Keys(DEFAULT_CONFIG.m["tools"]) \ Keys(last.src.m["tools"]) :
                    last.out.m["tools"].m[leaf] = DEFAULT_CONFIG.m["tools"].m[leaf]
              /\ \A leaf \in Keys(last.src.m["tools"]) :
                    last.out.m["tools"].m[leaf] = last.src.m["tools"].m[leaf]
\* Both mappings nest a mapping under one key, in which one array replaces
\* another and a key of the first alone is kept.
C3_Witness ==
    /\ last.cmd = "deep_merge"
    /\ \E k \in Keys(last.dst) \cap Keys(last.src) :
          /\ IsMap(last.dst.m[k]) /\ IsMap(last.src.m[k])
          /\ Keys(last.dst.m[k]) \ Keys(last.src.m[k]) # {}
          /\ \E j \in Keys(last.dst.m[k]) \cap Keys(last.src.m[k]) :
                /\ last.dst.m[k].m[j].t = "arr" /\ last.src.m[k].m[j].t = "arr"
                /\ last.out.m[k].m[j] = last.src.m[k].m[j]

\* C4: for every configuration file holding a JSON object, every key of the
\* defaults, at the section level and at the leaf level of each section, is
\* in the configuration load_config returns.
C4_DefaultKeysPresent ==
    last.cmd = "load_config" /\ IsMap(cfgFile) =>
        /\ IsMap(last.out)
        /\ \A sec \in SectionNames :
              /\ HasKey(last.out, sec)
              /\ \A leaf \in Keys(DEFAULT_CONFIG.m[sec]) : HasKey(last.out.m[sec], leaf)

\* C5: resolve_tool returns the first suffix candidate that is a regular
\* file of the local bin directory, with the venv provenance; only if there
\* is none the path found on the search path, with "PATH"; otherwise no path,
\* with "missing"; and the path is absent exactly when the provenance is
\* "missing".
C5_ResolveToolResult ==
    last.cmd = "resolve_tool" =>
        LET regular == {i \in DOMAIN SuffixCandidates :
                           venv_bin_dir # "None" /\ VKind(last.name, SuffixCandidates[i]) = "file"}
        IN /\ regular # {} =>
                 last.out = <<[dir |-> venv_bin_dir, name |-> last.name,
                               ext |-> SuffixCandidates[Min(regular)]], "venv">>
           /\ regular = {} /\ last.name \in onPath =>
                 last.out = <<[dir |-> "PATH", name |-> last.name, ext |-> ""], "PATH">>
           /\ regular = {} /\ last.name \notin onPath => last.out = <<None, "missing">>
           /\ last.out[1] = None <=> last.out[2] = "missing"

\* C6: collect_sources returns exactly the files under the root whose
\* extension is in the configured set and none of whose directories under
\* the root has a name in the configured exclusion set, whatever the path of
\* the project root.
C6_CollectSourcesExact ==
    last.cmd = "collect_sources" /\ ~Raised(last.out) =>
        LET cfg == load_config(cfgFile)
            exts == Range(cfg.m["format"].m["extensions"].a)
            excluded == Range(cfg.m["format"].m["exclude_dirs"].a)
        IN Range(last.out.v) =
              {p \in UnderRoot : /\ p.kind = "file"
                                 /\ p.ext \in exts
                                 /\ \A i \in DOMAIN p.dir : p.dir[i] \notin excluded}

\* The run command's arguments as the record keeps them, and what it reads.
RunPreset == IF last.args.preset # "" THEN last.args.preset ELSE "dev"
RunEntries == BdirEntries(RunPreset)
ConfiguredTarget ==
    IF HasKey(cfgFile, "run") /\ HasKey(cfgFile.m["run"], "target")
    THEN cfgFile.m["run"].m["target"].s ELSE ""
RegularCandidates(t) ==
    LET c == << <<<<>>, t, "">>, <<<<>>, t, ".exe">>, <<<<"bin">>, t, "">>, <<<<"bin">>, t, ".exe">> >>
    IN {i \in 1..4 : \E e \in RunEntries : PathOf(e) = c[i] /\ e.kind = "file"}
CandidatePath(t, i) ==
    << <<<<>>, t, "">>, <<<<>>, t, ".exe">>, <<<<"bin">>, t, "">>, <<<<"bin">>, t, ".exe">> >>[i]

\* C7: the target is the explicit --target, else the configured run.target,
\* else the project name; the first of build/<preset>/<target>,
\* <target>.exe, bin/<target>, bin/<target>.exe that is a regular file is
\* launched, and the fallback search is used only when none of the four is.
C7_FirstRegularCandidateLaunched ==
    last.cmd = "run" /\ last.searched =>
        /\ last.target = IF last.args.target # "" THEN last.args.target
                         ELSE IF ConfiguredTarget # "" THEN ConfiguredTarget
                         ELSE "raider-proj"
        /\ LET regular == RegularCandidates(last.target)
           IN /\ regular # {} =>
                    /\ last.via = "candidate"
                    /\ PathOf(last.launched) = CandidatePath(last.target, Min(regular))
                    /\ last.launched.kind = "file"
              /\ regular = {} => last.via # "candidate"
\* Both <target> and bin/<target> are regular files and the bare one is launched.
C7_Witness ==
    /\ last.cmd = "run" /\ last.searched
    /\ {1, 3} \subseteq RegularCandidates(last.target)
    /\ last.via = "candidate"
    /\ PathOf(last.launched) = <<<<>>, last.target, "">>

\* A file the fallback search may launch.
Eligible(p) ==
    /\ p.kind = "file"
    /\ "CMakeFiles" \notin Range(rootParts) \cup {RunPreset} \cup Range(p.dir)
    /\ ~(p.stem = "CMakeFiles" /\ p.ext = "")
    /\ Lower(p.ext) \notin {".a", ".so", ".dylib", ".lib", ".pdb", ".obj", ".o", ".cmake"}
    /\ osName = "posix" => p.ext = "" /\ p.xok
    /\ osName = "nt" => Lower(p.ext) \in {".exe", ".bat", ".cmd"}
\* C8: when no candidate is a regular file, the newest eligible file under
\* the build-output directory is launched; a file is eligible only if no
\* segment of its path is CMakeFiles, its extension is none of the library,
\* debug, object and metadata extensions and, on POSIX, it has no extension
\* and is executable (elsewhere its extension is an executable's); when no
\* file is eligible, or the directory does not exist, the command fails
\* with the corrective message and launches nothing.
C8_FallbackLaunchesNewestEligible ==
    last.cmd = "run" /\ last.searched /\ RegularCandidates(last.target) = {} =>
        LET eligible == {p \in RunEntries : Eligible(p)}
        IN /\ eligible # {} =>
                 /\ last.via = "fallback"
                 /\ last.launched \in eligible
                 /\ \A q \in eligible : q.mtime <= last.launched.mtime
           /\ eligible = {} =>
                 /\ last.launched = None /\ ~last.started
                 /\ last.exit # 0
                 /\ "Could not find executable" \in last.out
\* The fallback launches a file although an older eligible file and a newer
\* file that is not eligible are there too.
C8_Witness ==
    /\ last.cmd = "run" /\ last.via = "fallback"
    /\ \E q \in RunEntries : Eligible(q) /\ q.mtime < last.launched.mtime

\* A command whose external process failed: what its record shows, and what
\* a failed build leaves at the root.
ExternalFailed(r) == \E i \in DOMAIN r.ran : r.ran[i].rc # 0
FailFastRecord ==
    /\ last.cmd \in {"configure", "build", "test", "fmt", "run"}
    /\ ExternalFailed(last)
    => /\ last.exit # 0
       /\ \A i \in DOMAIN last.ran : last.ran[i].rc # 0 => i = Len(last.ran)
       /\ \A msg \in last.out : msg \notin {"OK: config done!", "OK: build done!.", "OK: tests done!",
                                            "OK: file(s) formated.",
                                            "OK: symlink compile_commands.json at root.",
                                            "OK: compile_commands.json copied at root."}
       /\ ~last.searched /\ last.launched = None /\ ~last.started
FailedBuildKeepsRootCC ==
    last'.cmd = "build" /\ ExternalFailed(last') => rootCC' = rootCC
\* C9: when the external process run by configure, build, test or fmt (or
\* by the build step of run --build) exits with a non-zero status, the
\* command ends with a failure status and does nothing further: no later
\* file is formatted, compile_commands.json at the root is left as it was,
\* the program is neither searched for nor launched.
C9_FailFast == [](FailFastRecord) /\ [][FailedBuildKeepsRootCC]_vars
\* fmt stopped at the first file, whose formatting failed, with files left.
C9_Witness ==
    /\ last.cmd = "fmt"
    /\ Len(last.ran) = 1 /\ last.ran[1].rc # 0
    /\ Cardinality({p \in UnderRoot : p.ext \in {".cpp", ".hpp"}}) > 1

\* C10: when the launched program exits with a non-zero status, run reports
\* that failure and still ends with exit status zero.
C10_ChildFailureReportedNotPropagated ==
    last.cmd = "run" /\ last.started /\ last.childrc # 0 =>
        /\ last.exit = 0
        /\ last.out \ {">> running"} # {}

\* C11: write_if_missing leaves an existing destination unchanged, so every
\* run of init, with any --name and --cxxstd and after any user edit, leaves
\* the content of every generated file that exists exactly as it was.
C11_InitKeepsExistingFiles ==
    [][last = NoCmd /\ last'.cmd = "init" =>
          \A q \in DOMAIN skel : q \in DOMAIN skel' /\ skel'[q] = skel[q]]_vars
\* init --name app ended well on a project whose manifest the user edited and
\* whose CMakeLists.txt was generated for the name demo.
C11_Witness ==
    /\ last.cmd = "init" /\ last.exit = 0 /\ last.args.name = "app"
    /\ <<"vcpkg.json">> \in DOMAIN skel /\ skel[<<"vcpkg.json">>] = Text(<<"user edit">>)
    /\ <<"CMakeLists.txt">> \in DOMAIN skel
    /\ skel[<<"CMakeLists.txt">>] =
          Text(render(TEMPL_CMAKELISTS, << <<"name", Str("demo")>>, <<"cxxstd", Num(20)>> >>))

\* The manifest as a command finds it, and its dependency list when it has one.
ManifestData(files) ==
    IF <<"vcpkg.json">> \in DOMAIN files THEN read_json(files[<<"vcpkg.json">>]) ELSE Invalid
HasDepList(files) ==
    /\ IsMap(ManifestData(files))
    /\ HasKey(ManifestData(files), "dependencies")
    /\ ManifestData(files).m["dependencies"].t = "arr"
DepList(files) == IF HasDepList(files) THEN ManifestData(files).m["dependencies"].a ELSE <<>>

\* C12: from a manifest whose dependency list has no duplicates, after any
\* sequence of deps add and deps remove with any package names, no package
\* name occurs more than once in the list.
C12_NoDuplicateDependency ==
    \A i, j \in DOMAIN DepList(skel) : DepList(skel)[i] = DepList(skel)[j] => i = j
\* deps add " fmt" found fmt in a list of two or more and added nothing.
C12_Witness ==
    /\ last.cmd = "deps add" /\ last.args.package = " fmt"
    /\ "Already exists" \in last.out
    /\ Len(DepList(skel)) >= 2

\* What the manifest must hold after a command changed the list to deps.
ManifestWith(files, deps) ==
    Map([k \in Keys(ManifestData(files)) \cup {"dependencies"} |->
            IF k = "dependencies" THEN Arr(deps) ELSE ManifestData(files).m[k]])
Without(deps, pkg) == SelectSeq(deps, LAMBDA x : x # pkg)

\* C13: deps add P with P in the list and deps remove P with P not in it
\* leave the manifest file unchanged, so that doing either twice is doing it
\* once; otherwise add appends P at the end and remove deletes P, and all
\* other entries keep their values and their order.
C13_AddRemoveSemantics ==
    [][last = NoCmd /\ last'.cmd \in {"deps add", "deps remove"} =>
          LET P == Strip(last'.args.package)
              old == DepList(skel)
              present == \E i \in DOMAIN old : old[i] = P
          IN IF Failed(last') THEN skel' = skel
             ELSE /\ last'.cmd = "deps add" /\ present => skel' = skel
                  /\ last'.cmd = "deps remove" /\ ~present => skel' = skel
                  /\ last'.cmd = "deps add" /\ ~present =>
                        /\ skel'[<<"vcpkg.json">>] = ManifestWith(skel, Append(old, P))
                        /\ cmd_deps_add(last'.args, skel').files = skel'
                  /\ last'.cmd = "deps remove" /\ present =>
                        /\ skel'[<<"vcpkg.json">>] = ManifestWith(skel, Without(old, P))
                        /\ cmd_deps_remove(last'.args, skel').files = skel'
                  /\ DOMAIN skel' = DOMAIN skel]_vars
\* zlib was removed from between fmt and boost.
C13_Witness ==
    /\ last.cmd = "deps remove" /\ Strip(last.args.package) = "zlib"
    /\ "OK: removed" \in last.out
    /\ DepList(skel) = <<"fmt", "boost">>

\* The steps of deps bootstrap, in the order the claim gives them.
BootOrder == <<"exists?", "clone", "bootstrap", "verify", "save">>
Rank(step) == CHOOSE i \in DOMAIN BootOrder : BootOrder[i] = step
InBootOrder(steps) ==
    \A i, j \in DOMAIN steps : i < j => Rank(steps[i]) < Rank(steps[j])
Did(r, step) == \E i \in DOMAIN r.steps : r.steps[i] = step

\* C17: deps bootstrap checks whether the clone exists, clones only if it
\* is absent, runs the bootstrap script, verifies the binary and only then
\* writes the manager and the install root into the configuration; on any
\* failure the configuration file is left unchanged.
C17_BootstrapOrder ==
    [][last = NoCmd /\ last'.cmd = "deps bootstrap" =>
          /\ InBootOrder(last'.steps)
          /\ Did(last', "clone") <=>
                Did(last', "exists?") /\ vcpkg[last'.dest].clone # "clone"
          /\ Did(last', "bootstrap") =>
                /\ Did(last', "exists?")
                /\ vcpkg'[last'.dest].clone = "clone" /\ vcpkg'[last'.dest].script
          /\ Did(last', "verify") => Did(last', "bootstrap")
          /\ Did(last', "save") =>
                /\ Did(last', "verify") /\ vcpkg'[last'.dest].exe
                /\ \A i \in DOMAIN last'.ran : last'.ran[i].rc = 0
                /\ ~Failed(last') /\ last'.saves = 1
                /\ cfgFile'.m["deps"].m["manager"] = Str("vcpkg")
                /\ cfgFile'.m["deps"].m["vcpkg_root"] = Str(last'.dest)
          /\ ~Did(last', "save") => Failed(last') /\ cfgFile' = cfgFile /\ last'.saves = 0]_vars
\* The clone succeeded, the script ran and failed: nothing was saved.
C17_Witness ==
    /\ last.cmd = "deps bootstrap"
    /\ last.steps = <<"exists?", "clone", "bootstrap">>
    /\ last.err = "CalledProcessError"
    /\ cfgFile = One("deps", One("manager", Str("none")))

\* C15: any two raid meters invocations given the same --seed and the same
\* --width print the same output, whatever else differs between them.
C15_MetersDeterministic ==
    Len(shown) = 2 /\ shown[1].args.seed # Null /\ shown[1].args = shown[2].args
    => shown[1].printed = shown[2].printed

\* C14: the configuration file is written only by init, deps add/remove and
\* deps bootstrap: configure, build, run, test, fmt, tidy, check and the
\* raid commands never create or modify it, whatever their outcome, and it
\* is written at most once per invocation.
C14_ConfigWrittenOnlyByMutators ==
    [][last = NoCmd /\ last' # NoCmd =>
          /\ last'.cmd \notin {"init", "deps add", "deps remove", "deps bootstrap"} =>
                cfgFile' = cfgFile /\ last'.saves = 0
          /\ last'.saves <= 1
          /\ last'.saves = 0 => cfgFile' = cfgFile]_vars
\* run failed on a project whose configuration init had written.
C14_Witness ==
    /\ last.cmd = "run" /\ last.exit # 0
    /\ IsMap(cfgFile) /\ cfgFile.m["project"].m["name"] = Str("app")

\* C16: no write of another invocation falls between an invocation's read
\* of the manifest and its write, so when two invocations that add different
\* packages overlap, the final manifest holds both packages.
C16_NoLostUpdate ==
    (\A p \in Procs : /\ procs[p].pc = "done"
                      /\ procs[p].cmd = "deps add"
                      /\ ~Failed(procs[p].o.res))
    /\ procs[1].pkg # procs[2].pkg
    => \A p \in Procs : \E i \in DOMAIN DepList(skel) : DepList(skel)[i] = procs[p].pkg

\* C18: the configuration load_config returns shares no mapping or array
\* with the hardcoded defaults, whether or not the configuration file
\* exists, so after init has set project.name and project.cxx_standard in
\* the loaded configuration the defaults still hold their original values.
C18_DefaultsUntouched ==
    last.cmd = "init" => last.defaults = DEFAULT_CONFIG

\* Every placeholder of a key replaced by that key's value, all at once.
Subst(template, kw) ==
    Flatten([i \in DOMAIN template |->
               IF \E j \in DOMAIN kw : template[i] = Placeholder(kw[j][1])
               THEN PyStr(kw[CHOOSE j \in DOMAIN kw : template[i] = Placeholder(kw[j][1])][2])
               ELSE <<template[i]>>])
Reversed(kw) == [i \in DOMAIN kw |-> kw[Len(kw) + 1 - i]]

\* C19: render yields the same text for every order of the substitution
\* keys: each occurrence of a key's placeholder in the template is replaced
\* by exactly that key's stringified value, and text inserted for one key is
\* not altered by the substitution of another key.
C19_RenderOrderIndependent ==
    last.cmd = "render" =>
        /\ last.text = Subst(last.template, last.kw)
        /\ last.text = render(last.template, Reversed(last.kw))

\* A CMakeLists.txt that init generated: the template with its placeholders
\* filled in; the second piece is the project name.
GeneratedCMakeLists ==
    /\ <<"CMakeLists.txt">> \in DOMAIN skel
    /\ skel[<<"CMakeLists.txt">>].t = "text"
    /\ Len(skel[<<"CMakeLists.txt">>].toks) = Len(TEMPL_CMAKELISTS)
    /\ skel[<<"CMakeLists.txt">>].toks[1] = TEMPL_CMAKELISTS[1]

\* C20: after any sequence of init invocations, with any --name arguments,
\* the project name stored in the configuration file equals the project name
\* rendered into the generated CMakeLists.txt.
C20_ConfigNameIsBuildName ==
    last.cmd = "init" /\ last.exit = 0 /\ GeneratedCMakeLists =>
        /\ IsMap(cfgFile)
        /\ cfgFile.m["project"].m["name"] = Str(skel[<<"CMakeLists.txt">>].toks[2])

====
